---- MODULE Spec2Model ----
(***************************************************************************)
(* NotificationConsumer (src/blog/consumers.py): a websocket consumer that *)
(* joins the channel-layer group "post_<post_id>" on connect, leaves it on *)
(* disconnect and forwards every "send_notification" event of the group to *)
(* its socket as the JSON text {"message": <text>}.                        *)
(*                                                                         *)
(* Texts (group names, messages, frames) are sequences of one-character    *)
(* strings, so that formatting and JSON encoding are computed, not assumed.*)
(*                                                                         *)
(* What the consumer inherits from Channels is modelled as the library     *)
(* behaves: a consumer handles its events one at a time (a notification    *)
(* that arrives during connect waits for connect to return), it stops      *)
(* after its disconnect handler, an exception in a handler ends that       *)
(* consumer only, group_add and group_discard are atomic, and group_send   *)
(* puts one copy of the event on the channel of every current member.      *)
(* Channel capacity and group expiry are not modelled.                     *)
(***************************************************************************)
EXTENDS Integers, Sequences, FiniteSets, TLC

\* ------------------------------------------------------------- bounds
NumSessions == 2
MaxNotify == 1
MaxDisconnects == 2

Sessions == 1..NumSessions
PostIds == {7, 42}
CloseCodes == {1000, 1006}

QUOTE == "\""
BSLASH == "\\"
Messages == { <<"x">>, <<"a", QUOTE, BSLASH>> }

Unset == <<>>
NoPost == 0

VARIABLES
  groups,           \* channel layer: group name -> set of channel names
  post_group_name,  \* self.post_group_name of each consumer (Unset before line 7)
  pc,               \* position of each consumer's single flow of handlers
  accepted,         \* whether accept() has completed the websocket handshake
  inbox,            \* events delivered to the consumer's channel, not yet handled
  received,         \* frames sent on the consumer's socket, in order
  error,            \* the exception a handler of the consumer raised, if any
  nextId,           \* number of notify calls made so far, plus one
  notifyRaised,     \* notify calls that raised to their caller
  joined,           \* post_id of the consumer's route, once connect read it
  disconnects       \* number of times the disconnect handler ran on the consumer

vars == <<groups, post_group_name, pc, accepted, inbox, received, error,
          nextId, notifyRaised, joined, disconnects>>

\* ------------------------------------------------------------- texts
Digit(d) == CASE d = 0 -> "0" [] d = 1 -> "1" [] d = 2 -> "2" [] d = 3 -> "3"
              [] d = 4 -> "4" [] d = 5 -> "5" [] d = 6 -> "6" [] d = 7 -> "7"
              [] d = 8 -> "8" [] d = 9 -> "9"

RECURSIVE str(_)
\* Python's str() of a non-negative integer, as the f-string of line 7 applies it.
str(n) == IF n < 10 THEN <<Digit(n)>> ELSE str(n \div 10) \o <<Digit(n % 10)>>

\* f"post_{post_id}"
GroupNameConstant(post_id) == <<"p", "o", "s", "t", "_">>
GroupName(post_id) == <<"p", "o", "s", "t", "_">> \o str(post_id)

RECURSIVE JsonEscape(_)
\* The body of a JSON string as json.dumps writes it: '"' and '\' are escaped.
JsonEscape(t) ==
  IF t = <<>> THEN <<>>
  ELSE (IF Head(t) = QUOTE \/ Head(t) = BSLASH THEN <<BSLASH, Head(t)>> ELSE <<Head(t)>>)
       \o JsonEscape(Tail(t))

JsonKey == <<"{", QUOTE, "m", "e", "s", "s", "a", "g", "e", QUOTE, ":", " ", QUOTE>>
JsonEnd == <<QUOTE, "}">>

\* json.dumps({'message': message})
json_dumps_raw(message) == JsonKey \o message \o JsonEnd
json_dumps(message) == JsonKey \o JsonEscape(message) \o JsonEnd

Range(q) == {q[i] : i \in DOMAIN q}

\* ------------------------------------------------------------- channel layer
channel_name(s) == s

Members(g) == IF g \in DOMAIN groups THEN groups[g] ELSE {}

\* (variant: the member set is written back from a stale read, losing the others)
group_add_overwrite(gs, g, ch) ==
  [h \in DOMAIN gs \cup {g} |-> IF h = g THEN {ch} ELSE gs[h]]

\* channel_layer.group_add(group, channel): the group exists from its first member on
group_add(gs, g, ch) ==
  IF g \in DOMAIN gs THEN [gs EXCEPT ![g] = @ \cup {ch}]
  ELSE [h \in DOMAIN gs \cup {g} |-> IF h = g THEN {ch} ELSE gs[h]]

\* (variant: a group emptied by a discard is kept, with no members)
group_discard_keep_empty(gs, g, ch) ==
  IF g \notin DOMAIN gs THEN gs ELSE [gs EXCEPT ![g] = @ \ {ch}]

\* (variant: the whole group is dropped, not the one channel)
group_discard_group(gs, g, ch) == [h \in DOMAIN gs \ {g} |-> gs[h]]

\* channel_layer.group_discard(group, channel): no error for a non-member; an
\* emptied group is dropped
group_discard(gs, g, ch) ==
  IF g \notin DOMAIN gs THEN gs
  ELSE IF gs[g] \ {ch} = {} THEN [h \in DOMAIN gs \ {g} |-> gs[h]]
  ELSE [gs EXCEPT ![g] = @ \ {ch}]

\* ------------------------------------------------------------- state
Init ==
  /\ groups = [g \in {} |-> {}]
  /\ post_group_name = [s \in Sessions |-> Unset]
  /\ pc = [s \in Sessions |-> "unconnected"]
  /\ accepted = [s \in Sessions |-> FALSE]
  /\ inbox = [s \in Sessions |-> <<>>]
  /\ received = [s \in Sessions |-> <<>>]
  /\ error = [s \in Sessions |-> "none"]
  /\ nextId = 1
  /\ notifyRaised = {}
  /\ joined = [s \in Sessions |-> NoPost]
  /\ disconnects = [s \in Sessions |-> 0]

\* ------------------------------------------------------------- handlers
RECURSIVE InNidOrder(_)
InNidOrder(es) ==
  IF es = {} THEN <<>>
  ELSE LET e == CHOOSE x \in es : \A y \in es : x.nid <= y.nid
       IN <<e>> \o InNidOrder(es \ {e})

\* (variant: the joining consumer is sent what the group's members already hold)
ConnectReplay(s, post_id) ==
  /\ pc[s] = "unconnected"
  /\ post_group_name' = [post_group_name EXCEPT ![s] = GroupName(post_id)]
  /\ groups' = group_add(groups, post_group_name'[s], channel_name(s))
  /\ pc' = [pc EXCEPT ![s] = "joining"]
  /\ joined' = [joined EXCEPT ![s] = post_id]
  /\ inbox' = [inbox EXCEPT ![s] = InNidOrder(
                  {e \in UNION {Range(inbox[u]) \cup {r.event : r \in Range(received[u])}
                                 : u \in Sessions} : e.post = post_id})]
  /\ UNCHANGED <<accepted, received, error, nextId, notifyRaised, disconnects>>

\* (variant: only the first client is let in)
ConnectAuthorized(s, post_id) ==
  /\ pc[s] = "unconnected"
  /\ s = 1
  /\ post_group_name' = [post_group_name EXCEPT ![s] = GroupName(post_id)]
  /\ groups' = group_add(groups, post_group_name'[s], channel_name(s))
  /\ pc' = [pc EXCEPT ![s] = "joining"]
  /\ joined' = [joined EXCEPT ![s] = post_id]
  /\ UNCHANGED <<accepted, inbox, received, error, nextId,
                 notifyRaised, disconnects>>

\* (variant: every consumer also joins a group shared by all posts)
ConnectBroadcast(s, post_id) ==
  /\ pc[s] = "unconnected"
  /\ post_group_name' = [post_group_name EXCEPT ![s] = GroupName(post_id)]
  /\ groups' = group_add(group_add(groups, post_group_name'[s], channel_name(s)),
                         <<"p", "o", "s", "t", "s">>, channel_name(s))
  /\ pc' = [pc EXCEPT ![s] = "joining"]
  /\ joined' = [joined EXCEPT ![s] = post_id]
  /\ UNCHANGED <<accepted, inbox, received, error, nextId,
                 notifyRaised, disconnects>>

\* (variant: a consumer that has disconnected takes a new connection)
ConnectAgain(s, post_id) ==
  /\ pc[s] \in {"unconnected", "disconnected"}
  /\ post_group_name' = [post_group_name EXCEPT ![s] = GroupName(post_id)]
  /\ groups' = group_add(groups, post_group_name'[s], channel_name(s))
  /\ pc' = [pc EXCEPT ![s] = "joining"]
  /\ joined' = [joined EXCEPT ![s] = post_id]
  /\ UNCHANGED <<accepted, inbox, received, error, nextId,
                 notifyRaised, disconnects>>

\* NotificationConsumer.connect up to its first completed await: the route's
\* post_id is read, the group name is stored and the channel joins the group.
Connect(s, post_id) ==
  /\ pc[s] = "unconnected"
  /\ post_group_name' = [post_group_name EXCEPT ![s] = GroupName(post_id)]
  /\ groups' = group_add(groups, post_group_name'[s], channel_name(s))
  /\ pc' = [pc EXCEPT ![s] = "joining"]
  /\ joined' = [joined EXCEPT ![s] = post_id]
  /\ UNCHANGED <<accepted, inbox, received, error, nextId,
                 notifyRaised, disconnects>>

\* await self.accept(): the handshake completes and connect returns.
Accept(s) ==
  /\ pc[s] = "joining"
  /\ accepted' = [accepted EXCEPT ![s] = TRUE]
  /\ pc' = [pc EXCEPT ![s] = "connected"]
  /\ UNCHANGED <<groups, post_group_name, inbox, received, error, nextId,
                 notifyRaised, joined, disconnects>>

\* (variant: the handler returns without leaving the group)
disconnect_keep(s, close_code) ==
  /\ disconnects' = [disconnects EXCEPT ![s] = @ + 1]
  /\ UNCHANGED <<groups, error>>

\* (variant: the group is left only on a normal close)
disconnect_if_normal(s, close_code) ==
  /\ disconnects' = [disconnects EXCEPT ![s] = @ + 1]
  /\ IF post_group_name[s] = Unset
     THEN /\ error' = [error EXCEPT ![s] = "AttributeError"]
          /\ UNCHANGED groups
     ELSE /\ groups' = IF close_code = 1000
                       THEN [h \in DOMAIN groups |-> groups[h] \ {channel_name(s)}]
                       ELSE groups
          /\ UNCHANGED error

\* The body of NotificationConsumer.disconnect: reading self.post_group_name
\* raises AttributeError when connect never assigned it.
disconnect(s, close_code) ==
  /\ disconnects' = [disconnects EXCEPT ![s] = @ + 1]
  /\ IF post_group_name[s] = Unset
     THEN /\ error' = [error EXCEPT ![s] = "AttributeError"]
          /\ UNCHANGED groups
     ELSE /\ groups' = group_discard(groups, post_group_name[s], channel_name(s))
          /\ UNCHANGED error

\* websocket.disconnect dispatched to a consumer whose connect has returned: the
\* handler runs and the consumer stops, its remaining events are never handled.
WebsocketDisconnect(s, close_code) ==
  /\ pc[s] = "connected"
  /\ disconnect(s, close_code)
  /\ pc' = [pc EXCEPT ![s] = "disconnected"]
  /\ UNCHANGED <<post_group_name, accepted, inbox, received, nextId,
                 notifyRaised, joined>>

\* disconnect invoked on a consumer that is not running a connection: one that
\* never connected, or one that has already disconnected.
DirectDisconnect(s, close_code) ==
  /\ pc[s] \in {"unconnected", "disconnected"}
  /\ disconnects[s] < MaxDisconnects
  /\ disconnect(s, close_code)
  /\ UNCHANGED <<post_group_name, pc, accepted, inbox, received, nextId,
                 notifyRaised, joined>>

\* notify(postId, message): group_send of a send_notification event to the
\* group of the post; every current member's channel gets one copy. The fields
\* nid, post and at of the event only record the call (its number, its post,
\* and, when it was made, the group's members and whether each consumer was
\* still before its connect, had joined, or was after its disconnect); no
\* handler reads them.
Notify(post_id, message) ==
  /\ nextId <= MaxNotify
  /\ LET members == Members(GroupName(post_id))
         event == [type |-> "send_notification", message |-> message,
                   nid |-> nextId, post |-> post_id,
                   at |-> [phase |-> [s \in Sessions |->
                                       IF pc[s] = "unconnected" THEN "before"
                                       ELSE IF pc[s] = "disconnected" THEN "after"
                                       ELSE "joined"],
                           members |-> members]]
     IN /\ inbox' = [s \in Sessions |->
                       IF channel_name(s) \in members
                       THEN Append(inbox[s], event) ELSE inbox[s]]
  /\ nextId' = nextId + 1
  /\ UNCHANGED <<groups, post_group_name, pc, accepted, received, error,
                 notifyRaised, joined, disconnects>>

SendOutcomes == {"sent", "dropped", "raised"}

\* (variant: a failed send aborts the fan-out: the other members' copies of the
\* event are withdrawn and the failure reaches the caller of notify)
SendNotificationAbort(s, outcome) ==
  /\ pc[s] = "connected"
  /\ inbox[s] # <<>>
  /\ LET event == Head(inbox[s])
         text_data == json_dumps(event.message)
     IN /\ inbox' = [u \in Sessions |->
                       IF u = s THEN Tail(inbox[s])
                       ELSE IF outcome = "sent" THEN inbox[u]
                       ELSE SelectSeq(inbox[u], LAMBDA e : e.nid # event.nid)]
        /\ received' = [received EXCEPT ![s] =
                          IF outcome = "sent"
                          THEN Append(@, [event |-> event, text |-> text_data])
                          ELSE @]
        /\ notifyRaised' = IF outcome = "sent" THEN notifyRaised
                           ELSE notifyRaised \cup {event.nid}
        /\ error' = [error EXCEPT ![s] = IF outcome = "raised" THEN "SendError" ELSE @]
        /\ pc' = [pc EXCEPT ![s] = IF outcome = "raised" THEN "crashed" ELSE @]
  /\ UNCHANGED <<groups, post_group_name, accepted, nextId, joined, disconnects>>

\* (variant: the frame is sent again after the first send)
SendNotificationRetry(s, outcome) ==
  /\ pc[s] = "connected"
  /\ inbox[s] # <<>>
  /\ LET event == Head(inbox[s])
         text_data == json_dumps(event.message)
         frame == [event |-> event, text |-> text_data]
     IN /\ inbox' = [inbox EXCEPT ![s] = Tail(@)]
        /\ received' = [received EXCEPT ![s] =
                          IF outcome = "sent" THEN Append(Append(@, frame), frame)
                          ELSE @]
        /\ error' = [error EXCEPT ![s] = IF outcome = "raised" THEN "SendError" ELSE @]
        /\ pc' = [pc EXCEPT ![s] = IF outcome = "raised" THEN "crashed" ELSE @]
  /\ UNCHANGED <<groups, post_group_name, accepted, nextId,
                 notifyRaised, joined, disconnects>>

\* (variant: the members are served in turn: a consumer is sent its event only
\* once every consumer before it has none pending)
SendNotificationInTurn(s, outcome) ==
  /\ pc[s] = "connected"
  /\ inbox[s] # <<>>
  /\ \A u \in Sessions : u < s => inbox[u] = <<>>
  /\ LET event == Head(inbox[s])
         text_data == json_dumps(event.message)
     IN /\ inbox' = [inbox EXCEPT ![s] = Tail(@)]
        /\ received' = [received EXCEPT ![s] =
                          IF outcome = "sent"
                          THEN Append(@, [event |-> event, text |-> text_data])
                          ELSE @]
        /\ error' = [error EXCEPT ![s] = IF outcome = "raised" THEN "SendError" ELSE @]
        /\ pc' = [pc EXCEPT ![s] = IF outcome = "raised" THEN "crashed" ELSE @]
  /\ UNCHANGED <<groups, post_group_name, accepted, nextId,
                 notifyRaised, joined, disconnects>>

\* (variant: the handler does not wait for connect to return)
SendNotificationEarly(s, outcome) ==
  /\ pc[s] \in {"joining", "connected"}
  /\ inbox[s] # <<>>
  /\ LET event == Head(inbox[s])
         text_data == json_dumps(event.message)
     IN /\ inbox' = [inbox EXCEPT ![s] = Tail(@)]
        /\ received' = [received EXCEPT ![s] =
                          IF outcome = "sent"
                          THEN Append(@, [event |-> event, text |-> text_data])
                          ELSE @]
        /\ error' = [error EXCEPT ![s] = IF outcome = "raised" THEN "SendError" ELSE @]
        /\ pc' = [pc EXCEPT ![s] = IF outcome = "raised" THEN "crashed" ELSE @]
  /\ UNCHANGED <<groups, post_group_name, accepted, nextId,
                 notifyRaised, joined, disconnects>>

\* (variant: a consumer whose send raised leaves its group and forgets its name)
SendNotificationLeaveOnError(s, outcome) ==
  /\ pc[s] = "connected"
  /\ inbox[s] # <<>>
  /\ LET event == Head(inbox[s])
         text_data == json_dumps(event.message)
     IN /\ inbox' = [inbox EXCEPT ![s] = Tail(@)]
        /\ received' = [received EXCEPT ![s] =
                          IF outcome = "sent"
                          THEN Append(@, [event |-> event, text |-> text_data])
                          ELSE @]
        /\ error' = [error EXCEPT ![s] = IF outcome = "raised" THEN "SendError" ELSE @]
        /\ pc' = [pc EXCEPT ![s] = IF outcome = "raised" THEN "crashed" ELSE @]
        /\ groups' = IF outcome = "raised"
                     THEN [h \in DOMAIN groups |-> groups[h] \ {channel_name(s)}]
                     ELSE groups
        /\ post_group_name' = IF outcome = "raised"
                              THEN [post_group_name EXCEPT ![s] = Unset]
                              ELSE post_group_name
  /\ UNCHANGED <<accepted, nextId, notifyRaised, joined, disconnects>>

\* NotificationConsumer.send_notification on the oldest pending event. The send
\* reaches the socket, or the connection is gone and the frame is dropped, or
\* the send raises in this consumer's own flow, which ends it.
SendNotification(s, outcome) ==
  /\ pc[s] = "connected"
  /\ inbox[s] # <<>>
  /\ LET event == Head(inbox[s])
         message == event.message
         text_data == json_dumps(message)
     IN /\ inbox' = [inbox EXCEPT ![s] = Tail(@)]
        /\ received' = [received EXCEPT ![s] =
                          IF outcome = "sent"
                          THEN Append(@, [event |-> event, text |-> text_data])
                          ELSE @]
        /\ error' = [error EXCEPT ![s] = IF outcome = "raised" THEN "SendError" ELSE @]
        /\ pc' = [pc EXCEPT ![s] = IF outcome = "raised" THEN "crashed" ELSE @]
  /\ UNCHANGED <<groups, post_group_name, accepted, nextId,
                 notifyRaised, joined, disconnects>>

\* ------------------------------------------------------------- specifications
Next ==
  \/ \E s \in Sessions, p \in PostIds : Connect(s, p)
  \/ \E s \in Sessions : Accept(s)
  \/ \E s \in Sessions, c \in CloseCodes : WebsocketDisconnect(s, c)
  \/ \E p \in PostIds, m \in Messages : Notify(p, m)
  \/ \E s \in Sessions, o \in SendOutcomes : SendNotification(s, o)

\* The consumers as the server drives them: connect first, one disconnect.
Spec == Init /\ [][Next]_vars

NextDirect ==
  \/ Next
  \/ \E s \in Sessions, c \in CloseCodes : DirectDisconnect(s, c)

\* The same, with disconnect also invoked on consumers that are not connected.
SpecDirect == Init /\ [][NextDirect]_vars

\* The event loop resumes every consumer whose flow can take a step: a connect
\* that has joined gets to accept, and a connected consumer with a pending event
\* gets to handle it. Clients and notifiers are under no obligation.
Fairness ==
  \A s \in Sessions :
     WF_vars(Accept(s) \/ \E o \in SendOutcomes : SendNotification(s, o))

FairSpec == Spec /\ Fairness

\* ------------------------------------------------------------- reading the state
MembersIn(gs, g) == IF g \in DOMAIN gs THEN gs[g] ELSE {}

\* the groups a consumer's channel is a member of
GroupsOfIn(gs, s) == {g \in DOMAIN gs : channel_name(s) \in gs[g]}
GroupsOf(s) == GroupsOfIn(groups, s)

\* the events a consumer holds: pending on its channel or sent on its socket
Pending(s) == Range(inbox[s])
Sent(s) == {r.event : r \in Range(received[s])}

IsPrefix(a, b) == Len(a) <= Len(b) /\ SubSeq(b, 1, Len(a)) = a
IsSuffix(a, b) == Len(a) <= Len(b) /\ SubSeq(b, Len(b) - Len(a) + 1, Len(b)) = a

RECURSIVE JsonUnescape(_)
\* A JSON string body read back: [ok, text]; a bare '"' or a dangling '\' is
\* not a string body.
JsonUnescape(t) ==
  IF t = <<>> THEN [ok |-> TRUE, text |-> <<>>]
  ELSE IF Head(t) = QUOTE THEN [ok |-> FALSE, text |-> <<>>]
  ELSE IF Head(t) = BSLASH
       THEN IF Len(t) < 2 THEN [ok |-> FALSE, text |-> <<>>]
            ELSE LET rest == JsonUnescape(SubSeq(t, 3, Len(t)))
                 IN [ok |-> rest.ok, text |-> <<t[2]>> \o rest.text]
  ELSE LET rest == JsonUnescape(Tail(t))
       IN [ok |-> rest.ok, text |-> <<Head(t)>> \o rest.text]

\* A frame read as a JSON object with the single string field "message".
JsonLoads(frame) ==
  IF /\ Len(frame) >= Len(JsonKey) + Len(JsonEnd)
     /\ IsPrefix(JsonKey, frame)
     /\ IsSuffix(JsonEnd, frame)
  THEN JsonUnescape(SubSeq(frame, Len(JsonKey) + 1, Len(frame) - Len(JsonEnd)))
  ELSE [ok |-> FALSE, text |-> <<>>]

Group42 == <<"p", "o", "s", "t", "_", "4", "2">>
Group7 == <<"p", "o", "s", "t", "_", "7">>

\* ------------------------------------------------------------- claims

\* C1: every step of connect on a session S with routing parameter post_id = P
\* (the join, and the accept that completes it) ends with S a member of
\* group(P), keyed "post_" + P, and of no group(P') with P' # P, and leaves the
\* memberships of all other sessions as they were.
C1_ConnectJoinsOnlyItsGroup ==
  [][\A s \in Sessions :
        (\/ pc[s] = "unconnected" /\ pc'[s] = "joining"
         \/ pc[s] = "joining" /\ pc'[s] = "connected")
        => LET P == joined'[s]
           IN /\ P \in PostIds
              /\ post_group_name'[s] = <<"p", "o", "s", "t", "_">> \o str(P)
              /\ channel_name(s) \in MembersIn(groups', GroupName(P))
              /\ \A Q \in PostIds \ {P} :
                    channel_name(s) \notin MembersIn(groups', GroupName(Q))
              /\ GroupsOfIn(groups', s) = {post_group_name'[s]}
              /\ \A u \in Sessions \ {s} :
                    GroupsOfIn(groups', u) = GroupsOfIn(groups, u)
     ]_vars

\* C1 witness: session 1 has completed connect to post 42 and is in "post_42"
\* only, while session 2, which joined post 7 before, is still in "post_7" only.
C1_Witness ==
  /\ pc[1] = "connected" /\ joined[1] = 42 /\ GroupsOf(1) = {Group42}
  /\ pc[2] = "connected" /\ joined[2] = 7 /\ GroupsOf(2) = {Group7}

\* C2 (the frames): every frame a session was sent reads back as the JSON
\* object whose single field message is exactly the published text, and it is
\* a frame of the session's own post, published while the session was a member.
C2_Frames ==
  \A s \in Sessions : \A r \in Range(received[s]) :
     /\ JsonLoads(r.text) = [ok |-> TRUE, text |-> r.event.message]
     /\ r.event.post = joined[s]
     /\ channel_name(s) \in r.event.at.members

\* C2 (the fan-out): a notify(P, m) puts one event carrying m on the channel of
\* every session that is a member of group(P) at that moment, each of them a
\* session connected to P, and on no other channel.
C2_FanOut ==
  nextId' = nextId + 1 =>
    \E P \in PostIds, m \in Messages :
      \A s \in Sessions :
        IF channel_name(s) \in Members(GroupName(P))
        THEN /\ joined[s] = P
             /\ Len(inbox'[s]) = Len(inbox[s]) + 1
             /\ SubSeq(inbox'[s], 1, Len(inbox[s])) = inbox[s]
             /\ inbox'[s][Len(inbox'[s])].message = m
             /\ inbox'[s][Len(inbox'[s])].type = "send_notification"
        ELSE inbox'[s] = inbox[s]

\* C2: notify(P, m) delivers the payload {"message": m} to the members of
\* group(P) at the time of the notify and to no session of another group.
C2_NotifyReachesExactlyTheGroup == [](C2_Frames) /\ [][C2_FanOut]_vars

\* C2 witness: sessions 1 and 2 are in group(42); the text a"\ was published
\* to post 42 and both were sent {"message": "a\"\\"}.
C2_Witness ==
  /\ joined[1] = 42 /\ joined[2] = 42
  /\ \A s \in {1, 2} :
       /\ Len(received[s]) = 1
       /\ received[s][1].event.message = <<"a", QUOTE, BSLASH>>
       /\ received[s][1].text =
            <<"{", QUOTE, "m", "e", "s", "s", "a", "g", "e", QUOTE, ":", " ",
              QUOTE, "a", BSLASH, QUOTE, BSLASH, BSLASH, QUOTE, "}">>

\* C3: a session holds no notification, pending or sent, of a notify that was
\* invoked after the session's disconnect had completed.
C3_NothingAfterDisconnect ==
  \A s \in Sessions : \A e \in Pending(s) \cup Sent(s) : e.at.phase[s] # "after"

\* C3 witness: session 1 connected to post 42 and disconnected; a notify on
\* post 42 invoked after that reached session 2, and session 1 holds nothing.
C3_Witness ==
  /\ pc[1] = "disconnected" /\ joined[1] = 42
  /\ Pending(1) \cup Sent(1) = {}
  /\ \E e \in Sent(2) : e.post = 42 /\ e.at.phase[1] = "after"

\* C4: a session holds no notification of a notify that was invoked before the
\* session's connect: whatever it holds was published while it was a member.
C4_NoReplay ==
  \A s \in Sessions : \A e \in Pending(s) \cup Sent(s) :
     /\ e.at.phase[s] = "joined"
     /\ channel_name(s) \in e.at.members

\* C4 witness: a notify on post 42 was sent to session 2 while session 1 had
\* not connected; session 1 has since completed connect to post 42 and holds
\* nothing.
C4_Witness ==
  /\ pc[1] = "connected" /\ joined[1] = 42
  /\ Pending(1) \cup Sent(1) = {}
  /\ \E e \in Sent(2) : e.post = 42 /\ e.at.phase[1] = "before"

\* C5: under every interleaving of the sessions' steps no completed join is
\* lost, no completed leave is undone, no session holds a notification twice,
\* and neither connect, disconnect nor notify raises.
C5_MembershipNeverCorrupted ==
  /\ \A s \in Sessions :
       /\ pc[s] \in {"joining", "connected", "crashed"}
            => channel_name(s) \in Members(GroupName(joined[s]))
       /\ pc[s] = "disconnected" => GroupsOf(s) = {}
       /\ \A n \in 1..(nextId - 1) :
            Cardinality({i \in DOMAIN inbox[s] : inbox[s][i].nid = n})
            + Cardinality({i \in DOMAIN received[s] : received[s][i].event.nid = n}) <= 1
       /\ error[s] \in {"none", "SendError"}
  /\ notifyRaised = {}

\* C5 witness: on one group, session 2 joined while session 1 was a member, a
\* notify reached both, session 1 has left and session 2 is still a member.
C5_Witness ==
  /\ joined[1] = 42 /\ joined[2] = 42
  /\ pc[1] = "disconnected" /\ pc[2] = "connected"
  /\ Members(Group42) = {channel_name(2)}
  /\ Len(received[1]) = 1 /\ Len(received[2]) = 1

\* C6: a disconnect on a session that is a member of no group (a second
\* disconnect, or the disconnect of a session that never registered) raises no
\* error and leaves every group's membership unchanged.
C6_DisconnectOfNonMemberIsSilent ==
  [][\A s \in Sessions :
        (disconnects'[s] = disconnects[s] + 1 /\ GroupsOf(s) = {})
        => (error'[s] = "none" /\ groups' = groups)
     ]_vars

\* C6, the part the code keeps: a disconnect on a session whose connect stored
\* its group name and which is a member of no group (it has already left)
\* raises no error and changes no membership.
C6_RepeatedDisconnectIsSilent ==
  [][\A s \in Sessions :
        (disconnects'[s] = disconnects[s] + 1 /\ GroupsOf(s) = {}
           /\ post_group_name[s] # Unset)
        => (error'[s] = error[s] /\ groups' = groups)
     ]_vars

\* C7: connect is open to every client and every post id and always accepts:
\* a session that has not connected can join the group of any post, a session
\* that has joined can be accepted, and a session whose connect has returned is
\* accepted and a member of the group of the post it asked for.
C7_ConnectAlwaysAccepts ==
  \A s \in Sessions :
     /\ pc[s] = "unconnected" => \A p \in PostIds : ENABLED Connect(s, p)
     /\ pc[s] = "joining" => (error[s] = "none" /\ ENABLED Accept(s))
     /\ pc[s] = "connected"
          => (accepted[s] /\ channel_name(s) \in Members(GroupName(joined[s])))

\* C7 witness: every session has connected to post 7 and has been accepted.
C7_Witness ==
  \A s \in Sessions :
     pc[s] = "connected" /\ accepted[s] /\ joined[s] = 7
       /\ channel_name(s) \in Members(Group7)

\* C8: for every post id P the members of group(P) are exactly the sessions
\* that have connected to P and have not disconnected, and no other group
\* exists.
C8_MembersAreJoinedNotLeft ==
  /\ \A P \in PostIds :
       Members(GroupName(P)) =
         {channel_name(s) : s \in {u \in Sessions :
                                     joined[u] = P /\ pc[u] # "disconnected"}}
  /\ DOMAIN groups \subseteq {GroupName(P) : P \in PostIds}

\* C8 witness: sessions 1 and 2 connected to post 42; 1 has disconnected and 2,
\* whose flow ended in a failed send, has not: group(42) is exactly {2}.
C8_Witness ==
  /\ joined[1] = 42 /\ joined[2] = 42
  /\ pc[1] = "disconnected" /\ pc[2] = "crashed"
  /\ DOMAIN groups = {Group42} /\ groups[Group42] = {channel_name(2)}

\* C9 (the step): a send_notification that sends no frame, its send having
\* failed, changes nothing of any other session (its pending events, its
\* frames, its position, its error), no membership, and raises nothing to the
\* caller of notify.
C9_FailedSendIsLocal ==
  \A s \in Sessions :
     (inbox[s] # <<>> /\ inbox'[s] = Tail(inbox[s]) /\ received'[s] = received[s])
     => /\ \A u \in Sessions \ {s} :
             /\ inbox'[u] = inbox[u] /\ received'[u] = received[u]
             /\ pc'[u] = pc[u] /\ error'[u] = error[u]
        /\ groups' = groups
        /\ notifyRaised' = notifyRaised

\* C9 (the state): no notify has raised to its caller, and every connected
\* session with a pending event can be sent it, whatever happened to the others.
C9_DeliveryStaysPossible ==
  /\ notifyRaised = {}
  /\ \A u \in Sessions :
       (pc[u] = "connected" /\ inbox[u] # <<>>) => ENABLED SendNotification(u, "sent")

\* C9: a send failure to one member during the fan-out of notify(P, m) does not
\* prevent the delivery of m to the other members and is not raised to the
\* caller of notify.
C9_SendFailureIsIsolated == [](C9_DeliveryStaysPossible) /\ [][C9_FailedSendIsLocal]_vars

\* C9 witness: a notify found sessions 1 and 2 in its group; the send to 1 has
\* raised, and the event is still pending for 2, which can be sent it.
C9_Witness ==
  /\ pc[1] = "crashed" /\ error[1] = "SendError" /\ inbox[1] = <<>>
  /\ pc[2] = "connected" /\ Len(inbox[2]) = 1
  /\ inbox[2][1].at.members = {channel_name(1), channel_name(2)}
  /\ ENABLED SendNotification(2, "sent")

\* C10: for each notify, a session is sent 0 frames or 1 frame: no retry, no
\* redelivery.
C10_AtMostOnce ==
  \A s \in Sessions : \A n \in 1..(nextId - 1) :
     Cardinality({i \in DOMAIN received[s] : received[s][i].event.nid = n}) <= 1

\* C10 witness: sessions 1 and 2 were both members when notify 1 was made and
\* both have handled it: 1 was sent one frame, 2, whose frame was dropped, none.
C10_Witness ==
  /\ pc[1] = "connected" /\ pc[2] = "connected"
  /\ inbox[1] = <<>> /\ inbox[2] = <<>>
  /\ Len(received[1]) = 1 /\ received[1][1].event.nid = 1
  /\ received[1][1].event.at.members = {channel_name(1), channel_name(2)}
  /\ received[2] = <<>>

\* C11 (the state): a session that has joined and not disconnected is a member
\* of exactly one group, the one named after the post id given at connect.
C11_OneGroup ==
  \A s \in Sessions :
     pc[s] \in {"joining", "connected"}
     => /\ post_group_name[s] = <<"p", "o", "s", "t", "_">> \o str(joined[s])
        /\ GroupsOf(s) = {post_group_name[s]}

\* C11 (the step): a session's group name changes only in that session's own
\* connect.
C11_NameSetOnlyByConnect ==
  \A s \in Sessions :
     post_group_name'[s] # post_group_name[s]
     => (pc[s] = "unconnected" /\ pc'[s] = "joining" /\ post_group_name[s] = Unset)

\* C11: each connected session is a member of exactly one group, the one
\* derived from the post id given at connect, and its group name is set only by
\* connect and changed by no later operation.
C11_OneGroupForLife == [](C11_OneGroup) /\ [][C11_NameSetOnlyByConnect]_vars

\* C11 witness: session 1, connected to post 42, has been sent a notification
\* after session 2 connected to post 7 and disconnected; session 1 is still in
\* "post_42" alone under the name it was given at connect.
C11_Witness ==
  /\ pc[1] = "connected" /\ joined[1] = 42 /\ Len(received[1]) = 1
  /\ pc[2] = "disconnected" /\ joined[2] = 7
  /\ received[1][1].event.at.phase[2] = "after"
  /\ post_group_name[1] = Group42 /\ GroupsOf(1) = {Group42}

\* the lifecycle state of a session: connect has not returned, connect has
\* returned and disconnect has not run, disconnect has run
Lifecycle(s) ==
  IF pc[s] \in {"unconnected", "joining"} THEN "Unconnected"
  ELSE IF pc[s] = "disconnected" THEN "Disconnected" ELSE "Connected"

\* C12: a session's lifecycle state changes only from Unconnected to Connected,
\* when its connect returns, and from Connected to Disconnected, when its
\* disconnect runs; a disconnected session stays disconnected and is in no
\* group again.
C12_Lifecycle ==
  [][\A s \in Sessions :
        /\ Lifecycle(s)' # Lifecycle(s)
             => \/ /\ Lifecycle(s) = "Unconnected" /\ Lifecycle(s)' = "Connected"
                   /\ accepted'[s] /\ ~accepted[s]
                \/ /\ Lifecycle(s) = "Connected" /\ Lifecycle(s)' = "Disconnected"
                   /\ disconnects'[s] = disconnects[s] + 1
        /\ Lifecycle(s) = "Disconnected"
             => (Lifecycle(s)' = "Disconnected" /\ GroupsOfIn(groups', s) = {})
        /\ Lifecycle(s) # "Unconnected" => pc'[s] # "joining"
     ]_vars

\* C12 witness: session 1 connected to post 42 and disconnected; session 2 has
\* joined the same group since, and no connect is open to session 1 any more.
C12_Witness ==
  /\ pc[1] = "disconnected" /\ accepted[1] /\ joined[1] = 42
  /\ pc[2] = "connected" /\ joined[2] = 42 /\ Members(Group42) = {channel_name(2)}
  /\ \A p \in PostIds : ~ENABLED Connect(1, p)

PendingNid(s, n) == \E e \in Pending(s) : e.nid = n
SentNid(s, n) == \E e \in Sent(s) : e.nid = n

\* C13: under fair scheduling, a notification put on the channel of a member
\* of group(P) does not wait there for ever: at every moment there is a later
\* one at which the member has been sent it, or the member has not stayed
\* connected (it disconnected, or its flow has ended), or the notification is
\* neither pending nor sent (it was handled and its send failed, or it was
\* never put on this channel). What the other members do, or fail to do, does
\* not enter.
C13_EventuallyDelivered ==
  \A s \in Sessions : \A n \in 1..MaxNotify :
     []<>(\/ SentNid(s, n)
          \/ pc[s] \in {"disconnected", "crashed"}
          \/ (~PendingNid(s, n) /\ ~SentNid(s, n)))

\* C13 witness: a notify found sessions 1 and 2 in its group; session 1 is
\* dead, its flow ended by a failed send, and session 2 has been sent the frame.
C13_Witness ==
  /\ pc[1] = "crashed"
  /\ pc[2] = "connected" /\ Len(received[2]) = 1
  /\ received[2][1].event.at.members = {channel_name(1), channel_name(2)}

\* C14: a disconnect of S removes S from its group whatever close code it is
\* given: the state it leaves is the state the disconnect leaves with any
\* other close code.
C14_CloseCodeIgnored ==
  [][\A s \in Sessions :
        (disconnects'[s] = disconnects[s] + 1 /\ pc[s] = "connected")
        => /\ GroupsOfIn(groups', s) = {}
           /\ \A c \in CloseCodes : WebsocketDisconnect(s, c)
     ]_vars

\* C14 witness: sessions 1 and 2 were in group(42); session 1 has disconnected
\* and is in no group, session 2 is still a member.
C14_Witness ==
  /\ pc[1] = "disconnected" /\ disconnects[1] = 1 /\ joined[1] = 42
  /\ GroupsOf(1) = {}
  /\ pc[2] \in {"joining", "connected"} /\ groups = (Group42 :> {channel_name(2)})

\* C15 (the steps): a connect to a post whose group has no member makes the
\* session the group's only member; the disconnect of a group's last member
\* leaves no trace of the group; a notify on a post whose group has no member
\* puts nothing on any channel.
C15_GroupSteps ==
  /\ \A s \in Sessions :
       /\ (pc[s] = "unconnected" /\ pc'[s] = "joining"
             /\ Members(GroupName(joined'[s])) = {})
            => /\ GroupName(joined'[s]) \notin DOMAIN groups
               /\ MembersIn(groups', GroupName(joined'[s])) = {channel_name(s)}
       /\ (disconnects'[s] = disconnects[s] + 1 /\ post_group_name[s] # Unset
             /\ Members(post_group_name[s]) = {channel_name(s)})
            => /\ post_group_name[s] \notin DOMAIN groups'
               /\ \A g \in DOMAIN groups' : groups'[g] = groups[g]
  /\ \A P \in PostIds :
       (nextId' = nextId + 1 /\ Members(GroupName(P)) = {}
          /\ \A Q \in PostIds \ {P} : \A u \in Members(GroupName(Q)) : inbox'[u] = inbox[u])
       => inbox' = inbox

\* C15 (the state): a group exists exactly while it has a member, so that with
\* no member left the channel layer is as it was before any session joined.
C15_NoEmptyGroup ==
  /\ \A g \in DOMAIN groups : groups[g] # {}
  /\ (\A s \in Sessions : pc[s] \in {"unconnected", "disconnected"})
       => groups = [g \in {} |-> {}]

\* C15: a group needs no creation and no teardown: the first connect makes
\* the session its only member, the last disconnect leaves the state of
\* before any session joined, and a later notify on that post reaches nobody.
C15_ImplicitGroups == [](C15_NoEmptyGroup) /\ [][C15_GroupSteps]_vars

\* C15 witness: both sessions joined group(42) and both have disconnected; the
\* channel layer holds no group, as before any session joined, and a notify on
\* post 42 can still be made.
C15_Witness ==
  /\ \A s \in Sessions : pc[s] = "disconnected" /\ joined[s] = 42
  /\ groups = [g \in {} |-> {}]
  /\ ENABLED Notify(42, <<"x">>)

\* C16: no frame is sent on a session before its connection is accepted: a
\* frame is sent only by a session whose connect has returned, although the
\* session is in its group, and can be notified, from before the accept.
C16_NoFrameBeforeAccept ==
  [](\A s \in Sessions : received[s] # <<>> => accepted[s])
  /\ [][\A s \in Sessions :
          /\ received'[s] # received[s] => (accepted[s] /\ pc[s] = "connected")
          /\ (pc[s] = "joining" /\ inbox[s] # <<>> /\ inbox'[s] # inbox[s])
               => (Len(inbox'[s]) > Len(inbox[s]) /\ received'[s] = received[s])
       ]_vars

\* C16 witness: session 1 has joined group(42) and is not accepted yet; a
\* notify on post 42 is pending on its channel and no frame has been sent.
C16_Witness ==
  /\ pc[1] = "joining" /\ ~accepted[1] /\ joined[1] = 42
  /\ Len(inbox[1]) = 1 /\ inbox[1][1].post = 42
  /\ received[1] = <<>>

\* C17: handling a notification changes no group's member set and no
\* session's group name, and a disconnect of S changes the membership of no
\* session other than S.
C17_Frame ==
  [][\A s \in Sessions :
        /\ (inbox[s] # <<>> /\ inbox'[s] = Tail(inbox[s]))
             => (groups' = groups /\ post_group_name' = post_group_name)
        /\ disconnects'[s] = disconnects[s] + 1
             => (/\ \A u \in Sessions \ {s} :
                       GroupsOfIn(groups', u) = GroupsOfIn(groups, u)
                 /\ post_group_name' = post_group_name)
     ]_vars

\* C17 witness: sessions 1 and 2 were in group(42); session 1 has handled a
\* notification, its send having raised, session 2 has disconnected, and
\* session 1 is still in group(42) under its name.
C17_Witness ==
  /\ joined[1] = 42 /\ joined[2] = 42
  /\ pc[1] = "crashed" /\ inbox[1] = <<>>
  /\ pc[2] = "disconnected"
  /\ post_group_name[1] = Group42 /\ post_group_name[2] = Group42
  /\ groups = (Group42 :> {channel_name(1)})

====
